---- MODULE Spec2Model ----
(***************************************************************************)
(* Model of src/server.py: ProxyHandler, a single-threaded HTTP server     *)
(* that serves static files (do_GET), answers CORS preflights (do_OPTIONS) *)
(* and forwards POST /api/generate-scene to the chat-completion API with   *)
(* the key read from the .env file (do_POST, _load_api_key).               *)
(*                                                                         *)
(* Bytes and text are sequences of tokens.  A token is a record            *)
(* [k, s]: a single character (k = "ch"), or an atomic run of characters:  *)
(* a bare word, a JSON string literal (spelled raw or with \u escapes), a  *)
(* JSON number literal, or a byte that is not valid UTF-8.                 *)
(***************************************************************************)
EXTENDS Integers, Sequences, FiniteSets, TLC

Ch(c)     == [k |-> "ch",   s |-> c]   \* one character
Word(w)   == [k |-> "word", s |-> w]   \* a run of letters/digits/punctuation without specials
Str(t)    == [k |-> "str",  s |-> t]   \* JSON string literal "t", ASCII spelling
StrU(t)   == [k |-> "stru", s |-> t]   \* JSON string literal of non-ASCII text t, raw UTF-8 spelling
StrE(t)   == [k |-> "stre", s |-> t]   \* JSON string literal of non-ASCII text t, \uXXXX spelling
Num(n)    == [k |-> "num",  s |-> n]   \* JSON number literal spelled n
BadByte   == [k |-> "bad",  s |-> "ff"] \* a byte sequence that is not valid UTF-8

SP == Ch(" ")
NL == Ch("\n")
DQ == Ch("\"")
SQ == Ch("'")

Min(a, b) == IF a < b THEN a ELSE b

\* ------------------------------------------------------------------------
\* str helpers (Python str methods used by the handler)
\* ------------------------------------------------------------------------

RECURSIVE LStripSet(_, _)
LStripSet(s, cs) ==
    IF s # <<>> /\ Head(s) \in cs THEN LStripSet(Tail(s), cs) ELSE s

RECURSIVE RStripSet(_, _)
RStripSet(s, cs) ==
    IF s # <<>> /\ s[Len(s)] \in cs THEN RStripSet(SubSeq(s, 1, Len(s) - 1), cs) ELSE s

\* str.strip(): leading and trailing whitespace removed
Strip(s) == RStripSet(LStripSet(s, {SP, NL}), {SP, NL})

\* str.strip(c): leading and trailing occurrences of the character c removed
StripChar(s, c) == RStripSet(LStripSet(s, {c}), {c})

\* str.startswith(c) for a one-character prefix
StartsWith(s, c) == s # <<>> /\ Head(s) = c

\* str.endswith(suffix) for a suffix that is one token
EndsWith(s, tok) == s # <<>> /\ s[Len(s)] = tok

\* c in s
Has(s, c) == \E i \in 1..Len(s) : s[i] = c

\* index of the first occurrence of c in s (c occurs in s)
FirstIndex(s, c) == CHOOSE i \in 1..Len(s) : s[i] = c /\ \A j \in 1..(i - 1) : s[j] # c

\* s.split(c, 1): the parts before and after the first c
SplitFirst(s, c) ==
    LET i == FirstIndex(s, c)
    IN  <<SubSeq(s, 1, i - 1), SubSeq(s, i + 1, Len(s))>>

\* iteration over a text file: the lines, each with its newline
RECURSIVE FileLines(_)
FileLines(content) ==
    IF content = <<>> THEN <<>>
    ELSE IF Has(content, NL)
         THEN LET i == FirstIndex(content, NL)
              IN  <<SubSeq(content, 1, i)>> \o FileLines(SubSeq(content, i + 1, Len(content)))
         ELSE <<content>>

\* needle occurs in hay as a contiguous run
Contains(hay, needle) ==
    \E i \in 1..(Len(hay) - Len(needle) + 1) : SubSeq(hay, i, i + Len(needle) - 1) = needle

\* ------------------------------------------------------------------------
\* _load_api_key
\* ------------------------------------------------------------------------

KeyName == Word("OPENAI_API_KEY")

\* Python None / a str
NoneValue == [s |-> <<>>, isNone |-> TRUE]
StrValue(s) == [s |-> s, isNone |-> FALSE]

\* line 192: value.strip().strip('"').strip("'")
Unquote(value) == StripChar(StripChar(Strip(value), DQ), SQ)

\* the loop of lines 186-192 over the lines still to be read
RECURSIVE ScanLines(_)
ScanLines(lines) ==
    IF lines = <<>> THEN NoneValue
    ELSE LET line == Strip(Head(lines))
         IN  IF line # <<>> /\ ~StartsWith(line, Ch("#")) /\ Has(line, Ch("="))
                /\ Strip(SplitFirst(line, Ch("="))[1]) = <<KeyName>>
             THEN StrValue(Unquote(SplitFirst(line, Ch("="))[2]))
             ELSE ScanLines(Tail(lines))

\* the .env file: absent, or its content
AbsentFile == [content |-> <<>>, exists |-> FALSE]
File(content) == [content |-> content, exists |-> TRUE]

LoadApiKey(file) ==
    IF file.exists THEN ScanLines(FileLines(file.content)) ELSE NoneValue

\* `not api_key`
Falsy(v) == v.isNone \/ v.s = <<>>

\* ------------------------------------------------------------------------
\* bytes.decode('utf-8'), json.loads, json.dumps
\*
\* A decoded JSON value is a tagged tuple:
\*   <<"num", repr>>  <<"str", text>>  <<"ustr", text>> (non-ASCII text)
\*   <<"text", tokens>> (a str of several tokens)  <<"lit", "null"|"true"|"false">>
\*   <<"arr", items>>  <<"obj", pairs>> with pairs a sequence of <<key, value>>
\* ------------------------------------------------------------------------

Esc(c) == [k |-> "esc", s |-> c]   \* a backslash escape inside a JSON string

\* bytes.decode('utf-8'): UnicodeDecodeError on an invalid byte
DecodeOk(bytes) == \A i \in 1..Len(bytes) : bytes[i] # BadByte

\* the number a literal denotes, as Python prints it
NumberValue(s) ==
    CASE s = "10e-1" -> "1.0"
      [] s = "-0"    -> "0"
      [] OTHER       -> s

IsWs(tok) == tok \in {SP, NL}

RECURSIVE SkipWs(_, _)
SkipWs(t, i) == IF i <= Len(t) /\ IsWs(t[i]) THEN SkipWs(t, i + 1) ELSE i

ParseFail == [ok |-> FALSE, val |-> <<"lit", "null">>, next |-> 0]
ParseOk(v, n) == [ok |-> TRUE, val |-> v, next |-> n]

\* a Python str as a JSON value
TextValue(tokens) ==
    IF Len(tokens) = 1 /\ tokens[1].k = "word" THEN <<"str", tokens[1].s>>
    ELSE <<"text", tokens>>

UnescapeTok(tok) ==
    IF tok = Esc("\"") THEN DQ ELSE IF tok = Esc("n") THEN NL ELSE tok

EscapeTok(tok) ==
    IF tok = DQ THEN Esc("\"") ELSE IF tok = NL THEN Esc("n") ELSE tok

MapSeq(s, Op(_)) == [i \in 1..Len(s) |-> Op(s[i])]

IsStringValue(v) == v[1] \in {"str", "ustr", "text"}

\* d[k] = v on an insertion-ordered dict
DictSet(pairs, key, v) ==
    IF \E i \in 1..Len(pairs) : pairs[i][1] = key
    THEN [i \in 1..Len(pairs) |-> IF pairs[i][1] = key THEN <<key, v>> ELSE pairs[i]]
    ELSE Append(pairs, <<key, v>>)

RECURSIVE ParseValue(_, _), ParseElements(_, _, _), ParseMembers(_, _, _)
ParseValue(t, i0) ==
    LET i == SkipWs(t, i0)
    IN  IF i > Len(t) THEN ParseFail
        ELSE LET tok == t[i]
             IN  CASE tok.k = "num" -> ParseOk(<<"num", NumberValue(tok.s)>>, i + 1)
                   [] tok.k = "str" -> ParseOk(<<"str", tok.s>>, i + 1)
                   [] tok.k \in {"stru", "stre"} -> ParseOk(<<"ustr", tok.s>>, i + 1)
                   [] tok \in {Word("null"), Word("true"), Word("false")} ->
                        ParseOk(<<"lit", tok.s>>, i + 1)
                   [] tok = DQ ->
                        IF \E j \in (i + 1)..Len(t) : t[j] = DQ
                        THEN LET j == CHOOSE j \in (i + 1)..Len(t) :
                                          t[j] = DQ /\ \A m \in (i + 1)..(j - 1) : t[m] # DQ
                                 inner == SubSeq(t, i + 1, j - 1)
                             IN  IF \E m \in 1..Len(inner) : inner[m] \in {NL, BadByte}
                                 THEN ParseFail
                                 ELSE ParseOk(TextValue(MapSeq(inner, UnescapeTok)), j + 1)
                        ELSE ParseFail
                   [] tok = Ch("[") ->
                        LET j == SkipWs(t, i + 1)
                        IN  IF j <= Len(t) /\ t[j] = Ch("]")
                            THEN ParseOk(<<"arr", <<>>>>, j + 1)
                            ELSE ParseElements(t, i + 1, <<>>)
                   [] tok = Ch("{") ->
                        LET j == SkipWs(t, i + 1)
                        IN  IF j <= Len(t) /\ t[j] = Ch("}")
                            THEN ParseOk(<<"obj", <<>>>>, j + 1)
                            ELSE ParseMembers(t, i + 1, <<>>)
                   [] OTHER -> ParseFail

ParseElements(t, i, acc) ==
    LET p == ParseValue(t, i)
    IN  IF ~p.ok THEN ParseFail
        ELSE LET j == SkipWs(t, p.next)
             IN  IF j > Len(t) THEN ParseFail
                 ELSE IF t[j] = Ch(",") THEN ParseElements(t, j + 1, Append(acc, p.val))
                 ELSE IF t[j] = Ch("]") THEN ParseOk(<<"arr", Append(acc, p.val)>>, j + 1)
                 ELSE ParseFail

ParseMembers(t, i, acc) ==
    LET k == ParseValue(t, i)
    IN  IF ~k.ok \/ ~IsStringValue(k.val) THEN ParseFail
        ELSE LET c == SkipWs(t, k.next)
             IN  IF c > Len(t) \/ t[c] # Ch(":") THEN ParseFail
                 ELSE LET p == ParseValue(t, c + 1)
                      IN  IF ~p.ok THEN ParseFail
                          ELSE LET j == SkipWs(t, p.next)
                                   d == DictSet(acc, k.val, p.val)
                               IN  IF j > Len(t) THEN ParseFail
                                   ELSE IF t[j] = Ch(",") THEN ParseMembers(t, j + 1, d)
                                   ELSE IF t[j] = Ch("}") THEN ParseOk(<<"obj", d>>, j + 1)
                                   ELSE ParseFail

\* json.loads(text): JSONDecodeError when ~ok (no value, or extra data after it)
Loads(text) ==
    LET p == ParseValue(text, 1)
    IN  IF p.ok /\ SkipWs(text, p.next) = Len(text) + 1 THEN p ELSE ParseFail

\* json.dumps that keeps only the first element / member of a container
RECURSIVE DumpsFirstOnly(_)
DumpsFirstOnly(v) ==
    CASE v[1] = "num"  -> <<Num(v[2])>>
      [] v[1] = "str"  -> <<Str(v[2])>>
      [] v[1] = "ustr" -> <<StrE(v[2])>>
      [] v[1] = "text" -> <<DQ>> \o MapSeq(v[2], EscapeTok) \o <<DQ>>
      [] v[1] = "lit"  -> <<Word(v[2])>>
      [] v[1] = "arr"  ->
           <<Ch("[")>> \o (IF v[2] = <<>> THEN <<>> ELSE DumpsFirstOnly(v[2][1])) \o <<Ch("]")>>
      [] v[1] = "obj"  ->
           <<Ch("{")>>
           \o (IF v[2] = <<>> THEN <<>>
               ELSE DumpsFirstOnly(v[2][1][1]) \o <<Ch(":"), SP>> \o DumpsFirstOnly(v[2][1][2]))
           \o <<Ch("}")>>

\* json.dumps(value): default separators ", " and ": ", ensure_ascii
RECURSIVE Dumps(_), DumpsItems(_), DumpsPairs(_)
Dumps(v) ==
    CASE v[1] = "num"  -> <<Num(v[2])>>
      [] v[1] = "str"  -> <<Str(v[2])>>
      [] v[1] = "ustr" -> <<StrE(v[2])>>
      [] v[1] = "text" -> <<DQ>> \o MapSeq(v[2], EscapeTok) \o <<DQ>>
      [] v[1] = "lit"  -> <<Word(v[2])>>
      [] v[1] = "arr"  -> <<Ch("[")>> \o DumpsItems(v[2]) \o <<Ch("]")>>
      [] v[1] = "obj"  -> <<Ch("{")>> \o DumpsPairs(v[2]) \o <<Ch("}")>>

DumpsItems(items) ==
    IF items = <<>> THEN <<>>
    ELSE Dumps(Head(items))
         \o (IF Tail(items) = <<>> THEN <<>> ELSE <<Ch(","), SP>> \o DumpsItems(Tail(items)))

DumpsPairs(pairs) ==
    IF pairs = <<>> THEN <<>>
    ELSE Dumps(Head(pairs)[1]) \o <<Ch(":"), SP>> \o Dumps(Head(pairs)[2])
         \o (IF Tail(pairs) = <<>> THEN <<>> ELSE <<Ch(","), SP>> \o DumpsPairs(Tail(pairs)))

\* isinstance(v, dict) and key in v
IsDict(v) == v[1] = "obj"
HasKey(v, key) == IsDict(v) /\ \E i \in 1..Len(v[2]) : v[2][i][1] = key
\* v[key] (key is in v)
GetItem(v, key) == v[2][CHOOSE i \in 1..Len(v[2]) : v[2][i][1] = key][2]

\* ------------------------------------------------------------------------
\* Inputs: the .env files, the request targets, the request bodies, the
\* outcomes of urlopen
\* ------------------------------------------------------------------------

SecretA == <<Word("sk-A")>>
SecretB == <<Word("sk-B")>>

EnvFiles ==
    { AbsentFile,
      File(<<KeyName, Ch("=")>> \o SecretA \o <<NL>>),
      File(<<KeyName, Ch("=")>> \o SecretB),
      File(<<Ch("#"), Word("key"), NL, SP, KeyName, SP, Ch("="), SP, DQ>> \o SecretA \o <<DQ, SP, NL>>),
      File(<<Word("OTHER"), Ch("=")>> \o SecretA \o <<NL, Ch("#"), KeyName, Ch("=")>> \o SecretB \o <<NL>>),
      File(<<KeyName, Ch("="), SQ, SQ, NL, KeyName, Ch("=")>> \o SecretB \o <<NL>>),
      File(<<KeyName, Ch("=")>> \o SecretB \o <<NL, KeyName, Ch("=")>> \o SecretA \o <<NL>>) }

ProxyPath == <<Ch("/"), Word("api/generate-scene")>>
EnvPath   == <<Ch("/"), Word(".env")>>
IndexPath == <<Ch("/"), Word("index"), Word(".html")>>
IndexHtml == <<Word("<html>"), NL>>

Paths ==
    { <<Ch("/")>>, IndexPath, EnvPath,
      EnvPath \o <<Ch("?"), Word("v=1")>>,
      <<Ch("/"), Word("logo"), Word(".png")>>,
      <<Ch("/"), Word("missing"), Word(".js")>>,
      ProxyPath }

\* the payloads X of a well-formed body {"data": X}
DataTexts ==
    { <<Ch("{"), Str("model"), Ch(":"), Str("gpt"), Ch(","), Str("n"), Ch(":"), Num("10e-1"), Ch("}")>>,
      <<Ch("["), Num("1"), Ch(","), SP, StrU("e-acute"), Ch("]")>> }

Wrappers == {"compact", "spaced"}

Wrap(w, x) ==
    IF w = "compact"
    THEN <<Ch("{"), Str("data"), Ch(":")>> \o x \o <<Ch("}")>>
    ELSE <<Ch("{"), SP, Str("a"), Ch(":"), SP, Num("1"), Ch(","), SP, Str("data"), Ch(":"), SP>>
         \o x \o <<SP, Ch("}"), NL>>

\* bodies that are not of the form {"data": X}
OtherBodies ==
    { <<Word("not-json")>>,
      <<Ch("{"), Str("a"), Ch(":"), Num("1"), Ch("}")>>,
      <<Ch("["), Num("1"), Ch("]")>>,
      <<Ch("{"), Str("data"), Ch(":"), BadByte, Ch("}")>>,
      <<>> }

\* how the client frames the body: the Content-Length header it sends and
\* how much of the body it sends before it stops
Framings == {"exact", "no-header", "non-numeric", "short-length", "truncated"}

\* the response of the upstream API, as urlopen reports it
UpstreamBodies ==
    { <<Ch("{"), Str("id"), Ch(":"), Str("c1"), Ch(","), Str("choices"), Ch(":"),
        Ch("["), Ch("{"), Str("text"), Ch(":"), StrU("e-acute"), Ch(","), Str("n"), Ch(":"), Num("-0"),
        Ch("}"), Ch("]"), Ch("}"), NL>>,
      <<Ch("{"), Str("error"), Ch(":"), Ch("{"), Str("message"), Ch(":"), Str("bad key"), Ch("}"), Ch("}")>>,
      <<Word("Bad"), SP, Word("Gateway")>>,
      <<Word("Bad"), BadByte>>,
      <<>> }

UpstreamOutcomes ==
    [kind : {"response"}, code : {200, 201}, body : UpstreamBodies]
    \cup [kind : {"HTTPError"}, code : {304, 401}, body : UpstreamBodies]
    \cup [kind : {"URLError", "timeout"}, code : {0}, body : {<<>>}]

NoOutcome == [kind |-> "none", code |-> 0, body |-> <<>>]

\* ------------------------------------------------------------------------
\* State
\* ------------------------------------------------------------------------

VARIABLES
    env,          \* the .env file in the working directory
    pc,           \* where the server is: "idle", a handler position, "done"
    req,          \* the request being handled
    connected,    \* the client's connection is still open
    body,         \* do_POST: the local `body` (bytes read from rfile)
    api_key,      \* do_POST: the local `api_key`, as last assigned
    outcome,      \* what urlopen did for this request
    calls,        \* the requests sent upstream, in order
    wire,         \* the responses of this request that reached the client
    attempts,     \* the response writes of this request, by write site
    escaped,      \* an exception left the do_* method
    events,       \* the steps of this request, in the order they happened
    storeAtRead,  \* the .env file as it was when this request read it
    issued        \* how many times urlopen has been called

vars == <<env, pc, req, connected, body, api_key, outcome, calls, wire, attempts,
          escaped, events, storeAtRead, issued>>

MaxCalls == 2

UpstreamTimeout == 60

\* ------------------------------------------------------------------------
\* Exceptions and response writes
\* ------------------------------------------------------------------------

NoExc == [type |-> "none", msg |-> ""]
Exc(type, msg) == [type |-> type, msg |-> msg]

\* (ConnectionAbortedError, ConnectionResetError, BrokenPipeError)
IsDisconnect(e) == e.type \in {"ConnectionAbortedError", "ConnectionResetError", "BrokenPipeError"}

Header(name, value) == <<name, value>>
JsonType  == Header("Content-type", <<Word("application/json")>>)
AllowAny  == Header("Access-Control-Allow-Origin", <<Ch("*")>>)

Response(status, headers, content) == [body |-> content, status |-> status, headers |-> headers]

K(s) == <<"str", s>>
ErrorObject(msg) == <<"obj", << <<K("error"), K(msg)>> >> >>

\* the handler's progress through one request
Ctx(a, w, ev) == [wire |-> w, attempts |-> a, events |-> ev, raised |-> NoExc]

Raise(h, e) == [h EXCEPT !.raised = e]
Note(h, ev) == [h EXCEPT !.events = Append(@, ev)]

\* send_response .. end_headers .. wfile.write at one write site: the bytes
\* reach the client, or the write raises because the client is gone
Write(h, conn, site, resp) ==
    IF h.raised # NoExc THEN h
    ELSE IF conn
         THEN [h EXCEPT !.attempts = Append(@, site), !.wire = Append(@, resp),
                        !.events = Append(@, "response")]
         ELSE [h EXCEPT !.attempts = Append(@, site), !.events = Append(@, "response"),
                        !.raised = Exc("ConnectionResetError", "[Errno 104] Connection reset by peer")]

\* except (ConnectionAbortedError, ConnectionResetError, BrokenPipeError): pass
SwallowDisconnect(h) == IF IsDisconnect(h.raised) THEN Raise(h, NoExc) ELSE h
\* except: pass
SwallowAll(h) == Raise(h, NoExc)

\* ------------------------------------------------------------------------
\* do_GET
\* ------------------------------------------------------------------------

\* lines 18-23
GetPath(path) ==
    LET p == IF path = <<Ch("/")>> THEN IndexPath ELSE path
    IN  IF Has(p, Ch("?")) THEN SplitFirst(p, Ch("?"))[1] ELSE p

\* lines 27-42; "none" is the else branch
ContentType(path) ==
    CASE EndsWith(path, Word(".html")) -> "text/html"
      [] EndsWith(path, Word(".js"))   -> "application/javascript"
      [] EndsWith(path, Word(".json")) -> "application/json"
      [] EndsWith(path, Word(".env"))  -> "text/plain"
      [] EndsWith(path, Word(".css"))  -> "text/css"
      [] OTHER -> "none"

\* open('.' + path, 'rb') in the working directory
OpenFile(path, envFile) ==
    IF path = EnvPath THEN envFile
    ELSE IF path = IndexPath THEN File(IndexHtml)
    ELSE AbsentFile

DigitChars == <<"0", "1", "2", "3", "4", "5", "6", "7", "8", "9">>
DigitCh(d) == Ch(DigitChars[d + 1])

RECURSIVE Digits(_)
Digits(n) == IF n < 10 THEN <<DigitCh(n)>> ELSE Digits(n \div 10) \o <<DigitCh(n % 10)>>

DoGet(h, conn, path, envFile) ==
    LET p == GetPath(path)
        ctype == ContentType(p)
        f == OpenFile(p, envFile)
        generic(x) ==
            IF x.raised = NoExc THEN x
            ELSE SwallowAll(Write(Raise(x, NoExc), conn, "get-500",
                                  Response(500, <<JsonType>>, Dumps(ErrorObject(x.raised.msg)))))
    IN  IF ctype = "none"
        THEN generic(Write(h, conn, "get-404-type", Response(404, <<>>, <<>>)))
        ELSE IF ~f.exists
        THEN SwallowDisconnect(Write(h, conn, "get-404-file",
                 Response(404, <<JsonType>>, Dumps(ErrorObject("File not found")))))
        ELSE SwallowDisconnect(Write(h, conn, "get-200",
                 Response(200, <<Header("Content-type", <<Word(ctype)>>),
                                 Header("Content-Length", Digits(Len(f.content)))>>,
                          f.content)))

\* ------------------------------------------------------------------------
\* do_OPTIONS
\* ------------------------------------------------------------------------

DoOptions(h, conn) ==
    Write(h, conn, "options-200",
          Response(200, <<AllowAny,
                          Header("Access-Control-Allow-Methods", <<Word("GET, POST, OPTIONS")>>),
                          Header("Access-Control-Allow-Headers", <<Word("Content-Type, Authorization")>>)>>,
                   <<>>))

\* ------------------------------------------------------------------------
\* do_POST
\* ------------------------------------------------------------------------

NoHeader == [value |-> <<>>, present |-> FALSE]
HeaderValue(v) == [value |-> v, present |-> TRUE]

IsDigit(tok) == \E d \in 0..9 : tok = DigitCh(d)
DigitVal(tok) == CHOOSE d \in 0..9 : tok = DigitCh(d)

RECURSIVE DigitsValue(_)
DigitsValue(ds) ==
    IF ds = <<>> THEN 0 ELSE 10 * DigitsValue(SubSeq(ds, 1, Len(ds) - 1)) + DigitVal(ds[Len(ds)])

\* int(s): ValueError when ~ok
PyInt(text) ==
    LET t == Strip(text)
        neg == StartsWith(t, Ch("-"))
        ds == IF neg \/ StartsWith(t, Ch("+")) THEN Tail(t) ELSE t
    IN  IF ds # <<>> /\ \A i \in 1..Len(ds) : IsDigit(ds[i])
        THEN [n |-> IF neg THEN 0 - DigitsValue(ds) ELSE DigitsValue(ds), ok |-> TRUE]
        ELSE [n |-> 0, ok |-> FALSE]

\* int(self.headers.get('Content-Length', 0))
ContentLength(header) ==
    IF header.present THEN PyInt(header.value) ELSE [n |-> 0, ok |-> TRUE]

\* self.rfile.read(n) when the client has sent `sent` and then stops sending
Read(sent, n) == IF n < 0 THEN sent ELSE SubSeq(sent, 1, Min(n, Len(sent)))

\* lines 77-79: the exception raised, and the bytes read
ReadBody(header, sent) ==
    LET cl == ContentLength(header)
        raw == Read(sent, cl.n)
    IN  IF ~cl.ok
        THEN [body |-> <<>>, exc |-> Exc("ValueError", "invalid literal for int() with base 10")]
        ELSE IF ~DecodeOk(raw)
        THEN [body |-> raw, exc |-> Exc("UnicodeDecodeError", "'utf-8' codec can't decode byte 0xff")]
        ELSE IF ~Loads(raw).ok
        THEN [body |-> raw, exc |-> Exc("JSONDecodeError", "Expecting value")]
        ELSE [body |-> raw, exc |-> NoExc]

\* a key that is kept from the request before once one was found
KeyForRequestCached(previous, envFile) ==
    IF Falsy(previous) THEN LoadApiKey(envFile) ELSE previous
\* line 82: the local api_key is assigned from the file, whatever it held
KeyForRequest(previous, envFile) == LoadApiKey(envFile)

\* `if api_key is None`
KeyMissingNoneOnly(key) == key.isNone
\* line 83: `if not api_key`
KeyMissing(key) == Falsy(key)

\* line 91: request_data['data']
DataLookup(request_data) ==
    IF ~IsDict(request_data)
    THEN [val |-> <<"lit", "null">>, exc |-> Exc("TypeError", "indices must be integers or slices, not str")]
    ELSE IF ~HasKey(request_data, K("data"))
    THEN [val |-> <<"lit", "null">>, exc |-> Exc("KeyError", "'data'")]
    ELSE [val |-> GetItem(request_data, K("data")), exc |-> NoExc]

\* line 98
AuthorizationHeader(key) == <<Word("Bearer"), SP>> \o key.s

\* lines 92-102: the Request object
UpstreamRequest(key, data) ==
    [body    |-> Dumps(data),
     ctype   |-> "application/json",
     url     |-> "https://api.openai.com/v1/chat/completions",
     method  |-> "POST",
     auth    |-> AuthorizationHeader(key),
     timeout |-> UpstreamTimeout]

\* urlopen sends the request it is given, every time
IssueCall(sentSoFar, r) == Append(sentSoFar, r)

\* str(e) of the URLError
UrlErrorText(o) ==
    IF o.kind = "HTTPError"
    THEN (CASE o.code = 304 -> "HTTP Error 304: Not Modified"
            [] o.code = 401 -> "HTTP Error 401: Unauthorized"
            [] OTHER -> "HTTP Error")
    ELSE "<urlopen error [Errno 111] Connection refused>"

\* line 144
RelayedStatus(error_code) == IF error_code >= 400 THEN error_code ELSE 500

\* lines 116-148: except URLError as e
UrlErrorHandler(h, conn, o) ==
    LET hasRead == o.kind = "HTTPError"
        error_code == IF o.kind = "HTTPError" THEN o.code ELSE 500
        base == << <<K("error"), K(UrlErrorText(o))>>, <<K("type"), K("openai_api_error")>> >>
        details == IF Loads(o.body).ok THEN Loads(o.body).val ELSE TextValue(o.body)
        error_response ==
            IF hasRead /\ o.body # <<>> THEN Append(base, <<K("details"), details>>) ELSE base
    IN  IF hasRead /\ ~DecodeOk(o.body)
        THEN Raise(h, Exc("UnicodeDecodeError", "'utf-8' codec can't decode byte 0xff"))
        ELSE Write(h, conn, "post-upstream-error",
                   Response(RelayedStatus(error_code), <<JsonType, AllowAny>>,
                            Dumps(<<"obj", error_response>>)))

\* lines 105-148: urlopen returned or raised
UpstreamReturn(h, conn, o) ==
    CASE o.kind = "response" ->
           IF ~DecodeOk(o.body)
           THEN Raise(h, Exc("UnicodeDecodeError", "'utf-8' codec can't decode byte 0xff"))
           ELSE IF ~Loads(o.body).ok
           THEN Raise(h, Exc("JSONDecodeError", "Expecting value"))
           ELSE Write(h, conn, "post-200",
                      Response(200, <<JsonType, AllowAny>>, Dumps(Loads(o.body).val)))
      [] o.kind \in {"HTTPError", "URLError"} -> UrlErrorHandler(h, conn, o)
      [] OTHER -> Raise(h, Exc("TimeoutError", "timed out"))

\* lines 150-166: the except clauses of the outer try
PostExcept(h, conn) ==
    IF h.raised = NoExc THEN h
    ELSE IF h.raised.type = "JSONDecodeError"
    THEN SwallowDisconnect(Write(Raise(h, NoExc), conn, "post-400",
             Response(400, <<JsonType>>, Dumps(ErrorObject("Invalid JSON in request")))))
    ELSE SwallowDisconnect(Write(Raise(h, NoExc), conn, "post-500",
             Response(500, <<JsonType>>, Dumps(ErrorObject(h.raised.msg)))))

\* lines 84-88
KeyNotFound(h, conn) ==
    Write(h, conn, "post-500-no-key",
          Response(500, <<JsonType>>, Dumps(ErrorObject("API key not found in .env file"))))

\* lines 168-172
PostNotFound(h, conn) == SwallowAll(Write(h, conn, "post-404", Response(404, <<>>, <<>>)))

\* the key loaded before the body is read
PostStepsKeyFirst == <<"load_key", "read_body", "call_upstream", "await_upstream">>
\* the statements of the try body of do_POST (lines 75-114), in order
PostSteps == <<"read_body", "load_key", "call_upstream", "await_upstream">>

StepAfter(step) ==
    LET i == CHOOSE i \in 1..Len(PostSteps) : PostSteps[i] = step
    IN  IF i < Len(PostSteps) THEN PostSteps[i + 1] ELSE "done"

\* ------------------------------------------------------------------------
\* The server: one request at a time (HTTPServer.serve_forever)
\* ------------------------------------------------------------------------

NoRequest ==
    [path |-> <<>>, sent |-> <<>>, data |-> <<>>, method |-> "none", length |-> NoHeader]

\* the Content-Length header and the bytes a client sends for a body
Frame(framing, full) ==
    LET n == Len(full)
        less == IF n > 0 THEN n - 1 ELSE 0
    IN  CASE framing = "exact"        -> [sent |-> full, length |-> HeaderValue(Digits(n))]
          [] framing = "no-header"    -> [sent |-> full, length |-> NoHeader]
          [] framing = "non-numeric"  -> [sent |-> full, length |-> HeaderValue(<<Word("abc")>>)]
          [] framing = "short-length" -> [sent |-> full, length |-> HeaderValue(Digits(less))]
          [] framing = "truncated"    -> [sent |-> SubSeq(full, 1, less), length |-> HeaderValue(Digits(n))]

Here == Ctx(attempts, wire, events)

Init ==
    /\ env \in EnvFiles
    /\ pc = "idle"
    /\ req = NoRequest
    /\ connected = TRUE
    /\ body = <<>>
    /\ api_key = NoneValue
    /\ outcome = NoOutcome
    /\ calls = <<>>
    /\ wire = <<>>
    /\ attempts = <<>>
    /\ escaped = FALSE
    /\ events = <<>>
    /\ storeAtRead = AbsentFile
    /\ issued = 0

\* a request arrives: handle_one_request calls the do_* method
Begin(r, start) ==
    /\ pc \in {"idle", "done"}
    /\ Len(calls) < MaxCalls
    /\ req' = r
    /\ pc' = start
    /\ connected' = TRUE
    /\ body' = <<>>
    /\ outcome' = NoOutcome
    /\ wire' = <<>>
    /\ attempts' = <<>>
    /\ escaped' = FALSE
    /\ events' = <<>>
    /\ storeAtRead' = AbsentFile
    /\ UNCHANGED <<env, api_key, calls, issued>>

ReceiveGet ==
    \E path \in Paths :
        Begin([NoRequest EXCEPT !.method = "GET", !.path = path], "do_GET")

ReceiveOptions ==
    \E path \in {ProxyPath, IndexPath} :
        Begin([NoRequest EXCEPT !.method = "OPTIONS", !.path = path], "do_OPTIONS")

ReceivePostData ==
    \E x \in DataTexts, w \in Wrappers, f \in Framings :
        Begin([path |-> ProxyPath, sent |-> Frame(f, Wrap(w, x)).sent, data |-> x,
               method |-> "POST", length |-> Frame(f, Wrap(w, x)).length],
              Head(PostSteps))

ReceivePostOther ==
    \E b \in OtherBodies, f \in Framings :
        Begin([path |-> ProxyPath, sent |-> Frame(f, b).sent, data |-> <<>>,
               method |-> "POST", length |-> Frame(f, b).length],
              Head(PostSteps))

ReceivePostElsewhere ==
    Begin([NoRequest EXCEPT !.method = "POST", !.path = IndexPath,
                            !.length = HeaderValue(Digits(0))], "not_found")

\* the client goes away while its request is being handled
ClientDisconnect ==
    /\ pc \notin {"idle", "done"}
    /\ connected
    /\ connected' = FALSE
    /\ UNCHANGED <<env, pc, req, body, api_key, outcome, calls, wire, attempts, escaped,
                   events, storeAtRead, issued>>

\* the operator edits, creates or removes .env
EditEnv ==
    /\ \E f \in EnvFiles \ {env} : env' = f
    /\ UNCHANGED <<pc, req, connected, body, api_key, outcome, calls, wire, attempts, escaped,
                   events, storeAtRead, issued>>

\* a do_* method returns (or an exception leaves it)
Finish(h) ==
    /\ pc' = "done"
    /\ attempts' = h.attempts
    /\ wire' = h.wire
    /\ events' = h.events
    /\ escaped' = (h.raised # NoExc)

HandleGet ==
    /\ pc = "do_GET"
    /\ Finish(DoGet(Here, connected, req.path, env))
    /\ UNCHANGED <<env, req, connected, body, api_key, outcome, calls, storeAtRead, issued>>

HandleOptions ==
    /\ pc = "do_OPTIONS"
    /\ Finish(DoOptions(Here, connected))
    /\ UNCHANGED <<env, req, connected, body, api_key, outcome, calls, storeAtRead, issued>>

HandlePostNotFound ==
    /\ pc = "not_found"
    /\ Finish(PostNotFound(Here, connected))
    /\ UNCHANGED <<env, req, connected, body, api_key, outcome, calls, storeAtRead, issued>>

\* lines 77-79
PostReadBody ==
    /\ pc = "read_body"
    /\ LET r == ReadBody(req.length, req.sent)
       IN  /\ body' = r.body
           /\ IF r.exc = NoExc
              THEN /\ pc' = StepAfter("read_body")
                   /\ events' = events \o <<"body_read", "body_parsed">>
                   /\ UNCHANGED <<attempts, wire, escaped>>
              ELSE Finish(PostExcept(Raise(IF ContentLength(req.length).ok
                                           THEN Note(Here, "body_read") ELSE Here,
                                           r.exc), connected))
    /\ UNCHANGED <<env, req, connected, api_key, outcome, calls, storeAtRead, issued>>

\* lines 82-88
PostLoadKey ==
    /\ pc = "load_key"
    /\ api_key' = KeyForRequest(api_key, env)
    /\ storeAtRead' = env
    /\ IF KeyMissing(api_key')
       THEN Finish(PostExcept(KeyNotFound(Note(Here, "store_read"), connected), connected))
       ELSE /\ pc' = StepAfter("load_key")
            /\ events' = Append(events, "store_read")
            /\ UNCHANGED <<attempts, wire, escaped>>
    /\ UNCHANGED <<env, req, connected, body, outcome, calls, issued>>

\* lines 91-106, up to the point where urlopen waits for the upstream
PostCallUpstream ==
    /\ pc = "call_upstream"
    /\ LET d == DataLookup(Loads(body).val)
       IN  IF d.exc = NoExc
           THEN /\ calls' = IssueCall(calls, UpstreamRequest(api_key, d.val))
                /\ issued' = issued + 1
                /\ pc' = StepAfter("call_upstream")
                /\ events' = Append(events, "upstream_called")
                /\ UNCHANGED <<attempts, wire, escaped>>
           ELSE /\ Finish(PostExcept(Raise(Here, d.exc), connected))
                /\ UNCHANGED <<calls, issued>>
    /\ UNCHANGED <<env, req, connected, body, api_key, outcome, storeAtRead>>

\* lines 106-148: urlopen returns a response, raises, or gives up after the timeout
PostUpstreamReturn ==
    /\ pc = "await_upstream"
    /\ \E o \in UpstreamOutcomes :
        /\ outcome' = o
        /\ Finish(PostExcept(UpstreamReturn(Note(Here, "upstream_returned"), connected, o), connected))
    /\ UNCHANGED <<env, req, connected, body, api_key, calls, storeAtRead, issued>>

Next ==
    \/ ReceiveGet
    \/ ReceiveOptions
    \/ ReceivePostData
    \/ ReceivePostOther
    \/ ReceivePostElsewhere
    \/ ClientDisconnect
    \/ EditEnv
    \/ HandleGet
    \/ HandleOptions
    \/ HandlePostNotFound
    \/ PostReadBody
    \/ PostLoadKey
    \/ PostCallUpstream
    \/ PostUpstreamReturn

Spec == Init /\ [][Next]_vars

\* ------------------------------------------------------------------------
\* Vocabulary of the properties
\* ------------------------------------------------------------------------

Done == pc = "done"
ProxyPost == req.method = "POST" /\ req.path = ProxyPath
Happened(ev) == \E i \in 1..Len(events) : events[i] = ev
LastCall == calls[Len(calls)]

\* a JSON text with the spelling choices removed: no whitespace between
\* tokens, non-ASCII strings in one spelling, numbers as their value
CanonicalTok(tok) ==
    IF tok.k = "stru" THEN StrE(tok.s)
    ELSE IF tok.k = "num" THEN Num(NumberValue(tok.s))
    ELSE tok

RECURSIVE Canonical(_)
Canonical(t) ==
    IF t = <<>> THEN <<>>
    ELSE IF IsWs(Head(t)) THEN Canonical(Tail(t))
    ELSE <<CanonicalTok(Head(t))>> \o Canonical(Tail(t))

JsonEquivalent(a, b) == Canonical(a) = Canonical(b)

HasHeader(resp, hdr) == \E i \in 1..Len(resp.headers) : resp.headers[i] = hdr

\* the lines of the file that assign the credential name
IsKeyLine(line) ==
    LET l == Strip(line)
    IN  /\ l # <<>>
        /\ Head(l) # Ch("#")
        /\ Has(l, Ch("="))
        /\ Strip(SubSeq(l, 1, FirstIndex(l, Ch("=")) - 1)) = <<KeyName>>

KeyLines(file) == SelectSeq(FileLines(file.content), IsKeyLine)

ValueOfLine(line) ==
    LET l == Strip(line)
    IN  Unquote(SubSeq(l, FirstIndex(l, Ch("=")) + 1, Len(l)))

\* the store is absent, has no credential line, or its credential line is empty
LacksCredential(file) ==
    \/ ~file.exists
    \/ KeyLines(file) = <<>>
    \/ ValueOfLine(KeyLines(file)[1]) = <<>>

NoKeyBody == <<Ch("{"), Str("error"), Ch(":"), Str("API key not found in .env file"), Ch("}")>>
InvalidJsonBody == <<Ch("{"), Str("error"), Ch(":"), Str("Invalid JSON in request"), Ch("}")>>

\* a JSON object with an `error` member
IsErrorObject(text) == Loads(text).ok /\ HasKey(Loads(text).val, K("error"))

\* ------------------------------------------------------------------------
\* Properties
\* ------------------------------------------------------------------------

\* C1: no response that reaches a client contains the credential the
\* configuration store holds.
C1_NoCredentialInResponse ==
    \A i \in 1..Len(wire) :
        ~LacksCredential(env) => ~Contains(wire[i].body, LoadApiKey(env).s)

\* C2: a POST to the proxy path whose body could not be read and parsed
\* (non-numeric Content-Length, truncated body, invalid JSON) ends with
\* 400 {"error": "Invalid JSON in request"}, with no credential read and no
\* upstream call.
C2_ParseFailureIs400 ==
    (Done /\ ProxyPost /\ ~Happened("body_parsed"))
        => /\ ~Happened("store_read")
           /\ ~Happened("upstream_called")
           /\ connected => /\ Len(wire) = 1
                           /\ wire[1].status = 400
                           /\ JsonEquivalent(wire[1].body, InvalidJsonBody)

\* C3: a POST to the proxy path whose body parsed while the store lacks the
\* credential makes no upstream call and answers exactly
\* 500 {"error": "API key not found in .env file"} (nothing reaches a client
\* that has gone away), with or without a `data` field in the body.
C3_NoCredentialIs500 ==
    (Done /\ ProxyPost /\ Happened("body_parsed") /\ LacksCredential(storeAtRead))
        => /\ ~Happened("upstream_called")
           /\ outcome = NoOutcome
           /\ Len(calls) = issued
           /\ IF connected
              THEN /\ Len(wire) = 1
                   /\ wire[1].status = 500
                   /\ JsonEquivalent(wire[1].body, NoKeyBody)
              ELSE wire = <<>>

C3_Witness ==
    /\ Done /\ ProxyPost /\ Happened("body_parsed")
    /\ storeAtRead.exists /\ LacksCredential(storeAtRead)
    /\ ~HasKey(Loads(body).val, K("data"))
    /\ Len(wire) = 1 /\ wire[1].status = 500

C5_UpstreamFailureStatus ==
    (Done /\ ProxyPost /\ outcome.kind \in {"HTTPError", "URLError", "timeout"} /\ connected)
        => /\ Len(wire) = 1
           /\ wire[1].status = (IF outcome.kind = "HTTPError" /\ outcome.code >= 400
                                THEN outcome.code ELSE 500)
           /\ IsErrorObject(wire[1].body)

\* C6: when the client is gone at a response write (success relay, upstream
\* error, credential absent, 400, 404 of do_POST, OPTIONS), the handler
\* returns with no exception leaving it and without attempting another
\* response.
C6_DisconnectSwallowed ==
    (/\ Done /\ Len(attempts) > Len(wire)
     /\ attempts[1] \in {"post-200", "post-upstream-error", "post-500-no-key",
                         "post-400", "post-404", "options-200"})
        => ~escaped /\ Len(attempts) = 1

\* C7: every upstream call carries "Bearer " followed by the credential the
\* store held when the same request read it; every request that gets as far
\* as the call makes its own call, appended to the ones made before, so equal
\* requests against an equal store make equal, separate calls.
C7_FreshCredential ==
    [][ /\ Len(calls') = issued'
        /\ SubSeq(calls', 1, Len(calls)) = calls
        /\ (\E i \in 1..Len(events') : events'[i] = "upstream_called")
              => /\ ~LacksCredential(storeAtRead')
                 /\ calls'[Len(calls')].auth
                      = <<Word("Bearer"), SP>> \o ValueOfLine(KeyLines(storeAtRead')[1])
                 /\ JsonEquivalent(calls'[Len(calls')].body, req'.data) ]_vars

C7_Witness ==
    /\ Len(calls) = 2
    /\ calls[1].auth # calls[2].auth
    /\ calls[1].body = calls[2].body
    /\ Happened("upstream_called")
    /\ api_key.s = SecretB

\* C8: within a POST to the proxy path the steps happen in the order body
\* read and parsed, store read, upstream call issued, upstream call ended,
\* response bytes; a step happens only after the one before it, and once an
\* upstream call is issued no response byte precedes its end.
EventRank(ev) ==
    CASE ev = "body_read"         -> 1
      [] ev = "body_parsed"       -> 2
      [] ev = "store_read"        -> 3
      [] ev = "upstream_called"   -> 4
      [] ev = "upstream_returned" -> 5
      [] ev = "response"          -> 6

C8_StepOrder ==
    ProxyPost =>
        /\ \A i, j \in 1..Len(events) :
              i < j => /\ EventRank(events[i]) <= EventRank(events[j])
                       /\ EventRank(events[i]) = EventRank(events[j]) => events[i] = "response"
        /\ \A j \in 1..Len(events) :
              EventRank(events[j]) \in 2..5
                 => \E i \in 1..(j - 1) : EventRank(events[i]) = EventRank(events[j]) - 1
        /\ (Happened("response") /\ Happened("upstream_called")) => Happened("upstream_returned")

C8_Witness ==
    /\ Done /\ ProxyPost
    /\ events = <<"body_read", "body_parsed", "store_read", "upstream_called",
                  "upstream_returned", "response">>

\* C9: a POST to the proxy path whose body is a JSON object without a `data`
\* member, with the credential present, ends with a 4xx status.
C9_MissingDataIs4xx ==
    (/\ Done /\ ProxyPost /\ Happened("store_read") /\ ~LacksCredential(storeAtRead)
     /\ IsDict(Loads(body).val) /\ ~HasKey(Loads(body).val, K("data"))
     /\ connected)
        => Len(wire) = 1 /\ wire[1].status \in 400..499

\* C10: a request on which an upstream call was issued never ends with a
\* 400 response, whatever the call's outcome.
C10_No400AfterUpstream ==
    (Done /\ Happened("upstream_called"))
        => \A i \in 1..Len(wire) : wire[i].status # 400

====
